---- MODULE Spec2Model ----
(***************************************************************************)
(* The hermes REST handlers (hermes/handlers/api.py) over the relational   *)
(* store: hosts, event types, events, labors (each in one quest) and       *)
(* fates.  A handler is one action: it reads the request, reads or changes *)
(* the store and leaves the exchange (request and response) in resp.       *)
(***************************************************************************)
EXTENDS Integers, Sequences, FiniteSets, TLC

VARIABLES
    hosts,            \* committed rows of Host: [id, hostname]
    nextHostId,       \* autoincrement of Host.id
    eventTypes,       \* committed rows of EventType: [id, category, state, description]
    nextEventTypeId,  \* autoincrement of EventType.id
    events,           \* rows of Event: [id, hostId, eventTypeId, timestamp]
    labors,           \* rows of Labor: [id, hostId, questId, creationTime]
    fates,            \* rows of Fate: [id, eventTypeId]
    resp,             \* the last exchange: [op, req, kind, body]
    pc,               \* per client: where its create request stands
    pending,          \* per client: the row its session has inserted
    reply,            \* per client: the response emitted for its create request
    reads             \* the last read: its exchange, and the rows whose 201 preceded it

vars == <<hosts, nextHostId, eventTypes, nextEventTypeId, events, labors, fates,
          resp, pc, pending, reply, reads>>

store == <<hosts, nextHostId, eventTypes, nextEventTypeId, events, labors, fates>>
conc == <<pc, pending, reply, reads>>

(***************************************************************************)
(* Bounds of the model and the request inputs.                             *)
(***************************************************************************)
MaxHosts == 2
MaxEventTypes == 2
MaxEvents == 2
MaxLabors == 2
MaxFates == 2

Hostnames == {"h1", "h2"}
\* the hostnames a PUT or a DELETE can name in its path: the route takes any text
HostPaths == Hostnames \cup {""}
Categories == {"system-reboot"}
States == {"required", "completed"}
Descriptions == {"d1", "d2"}
QuestIds == {1, 2}
\* (offset, limit) of a request: the valid windows, a negative offset, a zero limit
PageInputs == {<<0, 1>>, <<1, 1>>, <<0, 2>>, <<1, 2>>, <<-1, 1>>, <<0, 0>>}
Relations == {"labors", "quests", "events", "fates"}
ExpandSets == {{}, {"labors", "events", "bogus"}, {"quests", "fates"}}

NoExchange == [op |-> "none", req |-> <<>>, kind |-> "none", body |-> <<>>]

(***************************************************************************)
(* Request bodies: jbody is the parsed JSON object, a set of <<key, value>>*)
(* pairs; valid = FALSE is a body that is not JSON (jbody raises           *)
(* ValueError).                                                            *)
(***************************************************************************)
Json(obj) == [valid |-> TRUE, obj |-> obj]
BadJson == [valid |-> FALSE, obj |-> {}]
HasKey(obj, k) == \E p \in obj : p[1] = k
Get(obj, k) == (CHOOSE p \in obj : p[1] = k)[2]

HostBodies ==
    {Json({<<"hostname", h>>}) : h \in Hostnames \cup {""}} \cup {Json({}), BadJson}

EventTypeBody(c, s, d) == Json({<<"category", c>>, <<"state", s>>, <<"description", d>>})
Without(body, k) == Json({p \in body.obj : p[1] # k})
\* the complete bodies, a body of each with one or two keys left out, no key, no JSON
EventTypeBodies ==
    LET full == {EventTypeBody(c, s, d) : c \in Categories, s \in States, d \in Descriptions}
        one == EventTypeBody("system-reboot", "completed", "d2")
    IN  full \cup {Without(one, "category"), Without(one, "state"), Without(one, "description")}
             \cup {Json({<<"description", d>>}) : d \in Descriptions}
             \cup {Json({}), BadJson}
\* an update may also carry a category and a state of its own
EventTypePutBodies ==
    EventTypeBodies \cup {EventTypeBody("system-maintenance", s, "d1") : s \in States}

(***************************************************************************)
(* Queries of the store.                                                   *)
(***************************************************************************)
Min(a, b) == IF a < b THEN a ELSE b

\* Query.filter_by(hostname=...).scalar(): the row, or none
HostByName(hostname) == {h \in hosts : h.hostname = hostname}

RECURSIVE order_by(_, _)
\* ORDER BY field ascending
order_by(rows, field) ==
    IF rows = {} THEN <<>>
    ELSE LET m == CHOOSE x \in rows : \A y \in rows : x[field] <= y[field]
         IN  <<m>> \o order_by(rows \ {m}, field)

RECURSIVE order_by_desc(_, _)
\* ORDER BY desc(field)
order_by_desc(rows, field) ==
    IF rows = {} THEN <<>>
    ELSE LET m == CHOOSE x \in rows : \A y \in rows : x[field] >= y[field]
         IN  <<m>> \o order_by_desc(rows \ {m}, field)

\* Query.limit(limit).offset(offset): LIMIT limit OFFSET offset of an ordered query
limit_offset(rows, limit, offset) ==
    SubSeq(rows, offset + 1, Min(Len(rows), offset + limit))

Range(s) == {s[i] : i \in 1..Len(s)}

\* Query.from_self().order_by(field): the windowed rows, sorted again
from_self_order_by(rows, field) == order_by(Range(rows), field)

\* Query.first(): the first row, or none (the empty sequence)
first(rows) == SubSeq(rows, 1, Min(Len(rows), 1))

\* Host.get_labors(): the host's labors, by creation time
get_labors(host) == order_by({l \in labors : l.hostId = host.id}, "creationTime")

\* Host.get_latest_events(): the host's events, latest first
get_latest_events(host) ==
    order_by_desc({e \in events : e.hostId = host.id}, "timestamp")

(***************************************************************************)
(* Serialization: to_dict() is an entity's full representation, href() its *)
(* canonical link.                                                         *)
(***************************************************************************)
Host_to_dict(host) == [id |-> host.id, hostname |-> host.hostname]
Host_href(hostname) == "/api/v1/hosts/" \o hostname

Labor_to_dict(labor) ==
    [id |-> labor.id, hostId |-> labor.hostId, questId |-> labor.questId,
     creationTime |-> ToString(labor.creationTime)]
Labor_href(labor) == "/api/v1/labors/" \o ToString(labor.id)

\* labor.quest: the quest that owns the labor
Labor_quest(labor) ==
    [id |-> labor.questId,
     labors |-> {l.id : l \in {x \in labors : x.questId = labor.questId}}]
Quest_to_dict(quest) == [id |-> quest.id, labors |-> quest.labors]
Quest_href(quest) == "/api/v1/quests/" \o ToString(quest.id)

Event_to_dict(event) ==
    [id |-> event.id, hostId |-> event.hostId, eventTypeId |-> event.eventTypeId,
     timestamp |-> ToString(event.timestamp)]
Event_href(event) == "/api/v1/events/" \o ToString(event.id)

Fate_to_dict(fate) == [id |-> fate.id, eventTypeId |-> fate.eventTypeId]
Fate_href(fate) == "/api/v1/fates/" \o ToString(fate.id)

EventType_to_dict(et) ==
    [id |-> et.id, category |-> et.category, state |-> et.state,
     description |-> et.description]
EventType_href(id) == "/api/v1/eventtypes/" \o ToString(id)

Map(s, F(_)) == [i \in 1..Len(s) |-> F(s[i])]

(***************************************************************************)
(* ApiHandler.get_pagination_values(): the request's (offset, limit,       *)
(* expand), refused when offset is negative or limit is not positive.      *)
(***************************************************************************)
get_pagination_values(offset, limit, expand) ==
    [ok |-> offset >= 0 /\ limit > 0, offset |-> offset, limit |-> limit,
     expand |-> expand]

(***************************************************************************)
(* The responders of ApiHandler and the exceptions of hermes.exc: an       *)
(* exchange's kind is the responder called (created, success, error) or    *)
(* the exception raised (BadRequest, NotFound, Conflict; ServerError is    *)
(* any exception no handler catches).                                      *)
(***************************************************************************)
Exchange(op, req, kind, body) == [op |-> op, req |-> req, kind |-> kind, body |-> body]
Message(text) == [message |-> text]

(***************************************************************************)
(* HostHandler.get: the host document with its windowed labors, their      *)
(* quests, its windowed events and its last event.                         *)
(***************************************************************************)
\* lines 162-165: one entry of json['labors']
HostLaborEntry(labor, expand) ==
    IF "labors" \in expand THEN Labor_to_dict(labor)
    ELSE [id |-> labor.id, href |-> Labor_href(labor)]

\* the quest entry, its form chosen by the test of the labor entry
HostQuestEntry_as_labors(labor, expand) ==
    IF "labors" \in expand THEN Quest_to_dict(Labor_quest(labor))
    ELSE [id |-> Labor_quest(labor).id, href |-> Quest_href(Labor_quest(labor))]

\* lines 167-175: one entry of json['quests']
HostQuestEntry(labor, expand) ==
    IF "quests" \in expand THEN Quest_to_dict(Labor_quest(labor))
    ELSE [id |-> Labor_quest(labor).id, href |-> Quest_href(Labor_quest(labor))]

\* lines 187-192: one entry of json['events']
HostEventEntry(event, expand) ==
    IF "events" \in expand THEN Event_to_dict(event)
    ELSE [id |-> event.id, href |-> Event_href(event)]

\* lines 158-161: the labors the loop runs over
HostLaborWindow(host, offset, limit) ==
    from_self_order_by(limit_offset(get_labors(host), limit, offset), "creationTime")

\* lines 183-186: the events the loop runs over
HostEventWindow(host, offset, limit) ==
    from_self_order_by(limit_offset(get_latest_events(host), limit, offset), "timestamp")

RECURSIVE Distinct(_)
\* a sequence without the later repeats of its elements
Distinct(seq) ==
    IF seq = <<>> THEN <<>>
    ELSE LET front == Distinct(SubSeq(seq, 1, Len(seq) - 1))
         IN  IF seq[Len(seq)] \in Range(front) THEN front ELSE Append(front, seq[Len(seq)])

\* json['quests'] with each quest once
HostQuests_once(window, expand) ==
    Distinct(Map(window, LAMBDA l : HostQuestEntry(l, expand)))

\* lines 167-177: json['quests'], one entry per labor of the loop
HostQuests(window, expand) == Map(window, LAMBDA l : HostQuestEntry(l, expand))

\* the first row of the events taken oldest first
HostLastEvent_oldest(host) ==
    first(order_by({e \in events : e.hostId = host.id}, "timestamp"))

\* line 182: last_event
HostLastEvent(host) == first(get_latest_events(host))

HostHandler_get(hostname, offset, limit, expand) ==
    LET p == get_pagination_values(offset, limit, expand)
        found == HostByName(hostname)
    IN  IF ~p.ok THEN [kind |-> "BadRequest", body |-> Message("Invalid Argument")]
        ELSE IF found = {} THEN [kind |-> "NotFound", body |-> Message("No such Host found")]
        ELSE LET host == CHOOSE h \in found : TRUE
                 lw == HostLaborWindow(host, p.offset, p.limit)
                 ew == HostEventWindow(host, p.offset, p.limit)
                 last_event == HostLastEvent(host)
             IN  IF last_event = <<>>
                 \* line 193: last_event is None, last_event.timestamp raises AttributeError
                 THEN [kind |-> "ServerError", body |-> Message("AttributeError")]
                 ELSE [kind |-> "success",
                       body |-> [id |-> host.id, hostname |-> host.hostname,
                                 limit |-> p.limit, offset |-> p.offset,
                                 labors |-> Map(lw, LAMBDA l : HostLaborEntry(l, p.expand)),
                                 quests |-> HostQuests(lw, p.expand),
                                 lastEvent |-> ToString(last_event[1].timestamp),
                                 events |-> Map(ew, LAMBDA e : HostEventEntry(e, p.expand))]]

GetHost ==
    \E hostname \in Hostnames, page \in PageInputs, expand \in ExpandSets :
        LET r == HostHandler_get(hostname, page[1], page[2], expand)
        IN  /\ resp' = Exchange("HostHandler.get",
                                [hostname |-> hostname, offset |-> page[1],
                                 limit |-> page[2], expand |-> expand], r.kind, r.body)
            /\ UNCHANGED <<store, conc>>

(***************************************************************************)
(* The Host model: create, update and delete, with the store's unique      *)
(* hostname and its foreign keys from Event and Labor.                     *)
(***************************************************************************)
\* Host.create(session, hostname)
Host_create(hostname) ==
    IF hostname = "" THEN [exc |-> "ValidationError", row |-> [id |-> 0, hostname |-> hostname]]
    ELSE IF HostByName(hostname) # {}
    THEN [exc |-> "IntegrityError", row |-> [id |-> 0, hostname |-> hostname]]
    ELSE [exc |-> "none", row |-> [id |-> nextHostId, hostname |-> hostname]]

\* host.update(hostname=...)
Host_update(host, hostname) ==
    IF \E other \in hosts : other.id # host.id /\ other.hostname = hostname
    THEN [exc |-> "IntegrityError", row |-> host]
    ELSE [exc |-> "none", row |-> [id |-> host.id, hostname |-> hostname]]

\* host.delete()
Host_delete(host) ==
    IF \/ \E e \in events : e.hostId = host.id
       \/ \E l \in labors : l.hostId = host.id
    THEN [exc |-> "IntegrityError", row |-> host]
    ELSE [exc |-> "none", row |-> host]

(***************************************************************************)
(* HostsHandler.post                                                       *)
(***************************************************************************)
HostsHandler_post(body) ==
    LET op == "HostsHandler.post" IN
    IF ~body.valid
    THEN /\ resp' = Exchange(op, body, "BadRequest", Message("ValueError"))
         /\ UNCHANGED <<store, conc>>
    ELSE IF ~HasKey(body.obj, "hostname")
    THEN /\ resp' = Exchange(op, body, "BadRequest",
                             Message("Missing Required Argument: hostname"))
         /\ UNCHANGED <<store, conc>>
    ELSE LET r == Host_create(Get(body.obj, "hostname")) IN
         IF r.exc = "IntegrityError"
         THEN /\ resp' = Exchange(op, body, "Conflict", Message("IntegrityError"))
              /\ UNCHANGED <<store, conc>>
         ELSE IF r.exc = "ValidationError"
         THEN /\ resp' = Exchange(op, body, "BadRequest", Message("ValidationError"))
              /\ UNCHANGED <<store, conc>>
         ELSE /\ nextHostId <= MaxHosts
              /\ hosts' = hosts \cup {r.row}
              /\ nextHostId' = nextHostId + 1
              /\ resp' = Exchange(op, body, "created",
                                  [id |-> r.row.id, hostname |-> r.row.hostname,
                                   href |-> Host_href(r.row.hostname),
                                   location |-> Host_href(r.row.hostname)])
              /\ UNCHANGED <<eventTypes, nextEventTypeId, events, labors, fates, conc>>

CreateHost == \E body \in HostBodies : HostsHandler_post(body)

(***************************************************************************)
(* HostHandler.put                                                         *)
(***************************************************************************)
\* put that reads the body before it looks the host up
HostHandler_put_body_first(hostname, body) ==
    LET op == "HostHandler.put"
        req == [hostname |-> hostname, body |-> body]
        found == HostByName(hostname)
    IN
    IF ~body.valid
    THEN /\ resp' = Exchange(op, req, "ServerError", Message("ValueError"))
         /\ UNCHANGED <<store, conc>>
    ELSE IF ~HasKey(body.obj, "hostname")
    THEN /\ resp' = Exchange(op, req, "BadRequest",
                             Message("Missing Required Argument: hostname"))
         /\ UNCHANGED <<store, conc>>
    ELSE IF found = {}
    THEN /\ resp' = Exchange(op, req, "NotFound", Message("No such Host found"))
         /\ UNCHANGED <<store, conc>>
    ELSE LET host == CHOOSE h \in found : TRUE
             r == Host_update(host, Get(body.obj, "hostname"))
         IN  IF r.exc = "IntegrityError"
             THEN /\ resp' = Exchange(op, req, "Conflict", Message("IntegrityError"))
                  /\ UNCHANGED <<store, conc>>
             ELSE /\ hosts' = (hosts \ {host}) \cup {r.row}
                  /\ resp' = Exchange(op, req, "success", [host |-> Host_to_dict(r.row)])
                  /\ UNCHANGED <<nextHostId, eventTypes, nextEventTypeId, events, labors,
                                 fates, conc>>

HostHandler_put(hostname, body) ==
    LET op == "HostHandler.put"
        req == [hostname |-> hostname, body |-> body]
        found == HostByName(hostname)
    IN
    IF found = {}
    THEN /\ resp' = Exchange(op, req, "NotFound", Message("No such Host found"))
         /\ UNCHANGED <<store, conc>>
    ELSE IF ~body.valid
    \* jbody raises ValueError, which put does not catch
    THEN /\ resp' = Exchange(op, req, "ServerError", Message("ValueError"))
         /\ UNCHANGED <<store, conc>>
    ELSE IF ~HasKey(body.obj, "hostname")
    THEN /\ resp' = Exchange(op, req, "BadRequest",
                             Message("Missing Required Argument: hostname"))
         /\ UNCHANGED <<store, conc>>
    ELSE LET host == CHOOSE h \in found : TRUE
             r == Host_update(host, Get(body.obj, "hostname"))
         IN  IF r.exc = "IntegrityError"
             THEN /\ resp' = Exchange(op, req, "Conflict", Message("IntegrityError"))
                  /\ UNCHANGED <<store, conc>>
             ELSE /\ hosts' = (hosts \ {host}) \cup {r.row}
                  /\ resp' = Exchange(op, req, "success", [host |-> Host_to_dict(r.row)])
                  /\ UNCHANGED <<nextHostId, eventTypes, nextEventTypeId, events, labors,
                                 fates, conc>>

UpdateHost ==
    \E hostname \in HostPaths, body \in HostBodies : HostHandler_put(hostname, body)

(***************************************************************************)
(* HostHandler.delete                                                      *)
(***************************************************************************)
\* delete that removes, with the host, the events and labors that refer to it
HostHandler_delete_cascade(hostname) ==
    LET op == "HostHandler.delete"
        req == [hostname |-> hostname]
        found == HostByName(hostname)
    IN
    IF found = {}
    THEN /\ resp' = Exchange(op, req, "NotFound", Message("No such Host found"))
         /\ UNCHANGED <<store, conc>>
    ELSE LET host == CHOOSE h \in found : TRUE
         IN  /\ hosts' = hosts \ {host}
             /\ events' = {e \in events : e.hostId # host.id}
             /\ labors' = {l \in labors : l.hostId # host.id}
             /\ resp' = Exchange(op, req, "success", Message("Host deleted."))
             /\ UNCHANGED <<nextHostId, eventTypes, nextEventTypeId, fates, conc>>

HostHandler_delete(hostname) ==
    LET op == "HostHandler.delete"
        req == [hostname |-> hostname]
        found == HostByName(hostname)
    IN
    IF found = {}
    THEN /\ resp' = Exchange(op, req, "NotFound", Message("No such Host found"))
         /\ UNCHANGED <<store, conc>>
    ELSE LET host == CHOOSE h \in found : TRUE
             r == Host_delete(host)
         IN  IF r.exc = "IntegrityError"
             THEN /\ resp' = Exchange(op, req, "Conflict", Message("IntegrityError"))
                  /\ UNCHANGED <<store, conc>>
             ELSE /\ hosts' = hosts \ {host}
                  /\ resp' = Exchange(op, req, "success", Message("Host deleted."))
                  /\ UNCHANGED <<nextHostId, eventTypes, nextEventTypeId, events, labors,
                                 fates, conc>>

DeleteHost == \E hostname \in HostPaths : HostHandler_delete(hostname)

(***************************************************************************)
(* The EventType model: create and update, with the store's unique         *)
(* (category, state); its events, latest first, and its fates.             *)
(***************************************************************************)
EventTypeById(id) == {et \in eventTypes : et.id = id}

\* EventType.create(session, category, state, description=description)
EventType_create(category, state, description) ==
    LET row == [id |-> nextEventTypeId, category |-> category, state |-> state,
                description |-> description]
    IN  IF \E et \in eventTypes : et.category = category /\ et.state = state
        THEN [exc |-> "IntegrityError", row |-> row]
        ELSE [exc |-> "none", row |-> row]

\* event_type.update(description=...)
EventType_update(et, description) ==
    [exc |-> "none",
     row |-> [id |-> et.id, category |-> et.category, state |-> et.state,
              description |-> description]]

\* EventType.get_latest_events(): the event type's events, latest first
EventType_get_latest_events(et) ==
    order_by_desc({e \in events : e.eventTypeId = et.id}, "timestamp")

\* EventType.get_associated_fates(): the fates of the event type
get_associated_fates(et) == order_by({f \in fates : f.eventTypeId = et.id}, "id")

(***************************************************************************)
(* EventTypesHandler.post                                                  *)
(***************************************************************************)
\* lines 320-325: the first of category, state, description the body lacks
FirstMissing(obj) ==
    IF ~HasKey(obj, "category") THEN "category"
    ELSE IF ~HasKey(obj, "state") THEN "state"
    ELSE IF ~HasKey(obj, "description") THEN "description"
    ELSE "none"

\* post that leaves the description out of EventType.create()
EventTypesHandler_post_no_description(body) ==
    LET op == "EventTypesHandler.post" IN
    IF ~body.valid
    THEN /\ resp' = Exchange(op, body, "BadRequest", Message("ValueError"))
         /\ UNCHANGED <<store, conc>>
    ELSE IF FirstMissing(body.obj) # "none"
    THEN /\ resp' = Exchange(op, body, "BadRequest",
                             Message("Missing Required Argument: " \o FirstMissing(body.obj)))
         /\ UNCHANGED <<store, conc>>
    ELSE LET r == EventType_create(Get(body.obj, "category"), Get(body.obj, "state"), "")
         IN  IF r.exc = "IntegrityError"
             THEN /\ resp' = Exchange(op, body, "Conflict", Message("IntegrityError"))
                  /\ UNCHANGED <<store, conc>>
             ELSE /\ nextEventTypeId <= MaxEventTypes
                  /\ eventTypes' = eventTypes \cup {r.row}
                  /\ nextEventTypeId' = nextEventTypeId + 1
                  /\ resp' = Exchange(op, body, "created",
                                      [id |-> r.row.id, category |-> r.row.category,
                                       state |-> r.row.state,
                                       description |-> r.row.description,
                                       href |-> EventType_href(r.row.id),
                                       location |-> EventType_href(r.row.id)])
                  /\ UNCHANGED <<hosts, nextHostId, events, labors, fates, conc>>

EventTypesHandler_post(body) ==
    LET op == "EventTypesHandler.post" IN
    IF ~body.valid
    THEN /\ resp' = Exchange(op, body, "BadRequest", Message("ValueError"))
         /\ UNCHANGED <<store, conc>>
    ELSE IF FirstMissing(body.obj) # "none"
    THEN /\ resp' = Exchange(op, body, "BadRequest",
                             Message("Missing Required Argument: " \o FirstMissing(body.obj)))
         /\ UNCHANGED <<store, conc>>
    ELSE LET r == EventType_create(Get(body.obj, "category"), Get(body.obj, "state"),
                                   Get(body.obj, "description"))
         IN  IF r.exc = "IntegrityError"
             THEN /\ resp' = Exchange(op, body, "Conflict", Message("IntegrityError"))
                  /\ UNCHANGED <<store, conc>>
             ELSE /\ nextEventTypeId <= MaxEventTypes
                  /\ eventTypes' = eventTypes \cup {r.row}
                  /\ nextEventTypeId' = nextEventTypeId + 1
                  /\ resp' = Exchange(op, body, "created",
                                      [id |-> r.row.id, category |-> r.row.category,
                                       state |-> r.row.state,
                                       description |-> r.row.description,
                                       href |-> EventType_href(r.row.id),
                                       location |-> EventType_href(r.row.id)])
                  /\ UNCHANGED <<hosts, nextHostId, events, labors, fates, conc>>

CreateEventType == \E body \in EventTypeBodies : EventTypesHandler_post(body)

(***************************************************************************)
(* EventTypeHandler.get: the event type document with its windowed events  *)
(* and all its fates.                                                      *)
(***************************************************************************)
\* lines 443-448: one entry of json['events']
EventTypeEventEntry(event, expand) ==
    IF "events" \in expand THEN Event_to_dict(event)
    ELSE [id |-> event.id, href |-> Event_href(event)]

\* lines 456-461: one entry of json['fate']
EventTypeFateEntry(fate, expand) ==
    IF "fates" \in expand THEN Fate_to_dict(fate)
    ELSE [id |-> fate.id, href |-> Fate_href(fate)]

\* lines 439-442: the events the loop runs over
EventTypeEventWindow(et, offset, limit) ==
    from_self_order_by(limit_offset(EventType_get_latest_events(et), limit, offset),
                       "timestamp")

\* the fates, windowed like the events
EventTypeFates_windowed(et, offset, limit) ==
    limit_offset(get_associated_fates(et), limit, offset)

\* lines 453-455: the fates the loop runs over
EventTypeFates(et, offset, limit) == get_associated_fates(et)

EventTypeHandler_get(id, offset, limit, expand) ==
    LET p == get_pagination_values(offset, limit, expand)
        found == EventTypeById(id)
    IN  IF ~p.ok THEN [kind |-> "BadRequest", body |-> Message("Invalid Argument")]
        ELSE IF found = {}
        THEN [kind |-> "NotFound", body |-> Message("No such EventType found")]
        ELSE LET et == CHOOSE x \in found : TRUE
                 ew == EventTypeEventWindow(et, p.offset, p.limit)
                 fs == EventTypeFates(et, p.offset, p.limit)
             IN  [kind |-> "success",
                  body |-> [id |-> et.id, category |-> et.category, state |-> et.state,
                            description |-> et.description,
                            limit |-> p.limit, offset |-> p.offset,
                            events |-> Map(ew, LAMBDA e : EventTypeEventEntry(e, p.expand)),
                            fate |-> Map(fs, LAMBDA f : EventTypeFateEntry(f, p.expand))]]

GetEventType ==
    \E id \in 1..MaxEventTypes, page \in PageInputs, expand \in ExpandSets :
        LET r == EventTypeHandler_get(id, page[1], page[2], expand)
        IN  /\ resp' = Exchange("EventTypeHandler.get",
                                [id |-> id, offset |-> page[1], limit |-> page[2],
                                 expand |-> expand], r.kind, r.body)
            /\ UNCHANGED <<store, conc>>

(***************************************************************************)
(* EventTypeHandler.put                                                    *)
(***************************************************************************)
\* put that hands every key of the body to event_type.update()
EventTypeHandler_put_every_key(id, body) ==
    LET op == "EventTypeHandler.put"
        req == [id |-> id, body |-> body]
        found == EventTypeById(id)
    IN
    IF found = {}
    THEN /\ resp' = Exchange(op, req, "NotFound", Message("No such EventType found"))
         /\ UNCHANGED <<store, conc>>
    ELSE IF ~body.valid
    THEN /\ resp' = Exchange(op, req, "ServerError", Message("ValueError"))
         /\ UNCHANGED <<store, conc>>
    ELSE IF ~HasKey(body.obj, "description")
    THEN /\ resp' = Exchange(op, req, "BadRequest",
                             Message("Missing Required Argument: description"))
         /\ UNCHANGED <<store, conc>>
    ELSE LET et == CHOOSE x \in found : TRUE
             row == [id |-> et.id,
                     category |-> IF HasKey(body.obj, "category")
                                  THEN Get(body.obj, "category") ELSE et.category,
                     state |-> IF HasKey(body.obj, "state")
                               THEN Get(body.obj, "state") ELSE et.state,
                     description |-> Get(body.obj, "description")]
         IN  /\ eventTypes' = (eventTypes \ {et}) \cup {row}
             /\ resp' = Exchange(op, req, "success", [eventType |-> EventType_to_dict(row)])
             /\ UNCHANGED <<hosts, nextHostId, nextEventTypeId, events, labors, fates, conc>>

EventTypeHandler_put(id, body) ==
    LET op == "EventTypeHandler.put"
        req == [id |-> id, body |-> body]
        found == EventTypeById(id)
    IN
    IF found = {}
    THEN /\ resp' = Exchange(op, req, "NotFound", Message("No such EventType found"))
         /\ UNCHANGED <<store, conc>>
    ELSE IF ~body.valid
    \* jbody raises ValueError, which put does not catch
    THEN /\ resp' = Exchange(op, req, "ServerError", Message("ValueError"))
         /\ UNCHANGED <<store, conc>>
    ELSE IF ~HasKey(body.obj, "description")
    THEN /\ resp' = Exchange(op, req, "BadRequest",
                             Message("Missing Required Argument: description"))
         /\ UNCHANGED <<store, conc>>
    ELSE LET et == CHOOSE x \in found : TRUE
             r == EventType_update(et, Get(body.obj, "description"))
         IN  IF r.exc = "IntegrityError"
             THEN /\ resp' = Exchange(op, req, "Conflict", Message("IntegrityError"))
                  /\ UNCHANGED <<store, conc>>
             ELSE /\ eventTypes' = (eventTypes \ {et}) \cup {r.row}
                  /\ resp' = Exchange(op, req, "success",
                                      [eventType |-> EventType_to_dict(r.row)])
                  /\ UNCHANGED <<hosts, nextHostId, nextEventTypeId, events, labors,
                                 fates, conc>>

UpdateEventType ==
    \E id \in 1..MaxEventTypes, body \in EventTypePutBodies : EventTypeHandler_put(id, body)

(***************************************************************************)
(* EventTypeHandler.delete                                                 *)
(***************************************************************************)
EventTypeHandler_delete(id) ==
    /\ resp' = Exchange("EventTypeHandler.delete", [id |-> id], "error",
                        Message("Not supported."))
    /\ UNCHANGED <<store, conc>>

DeleteEventType == \E id \in 1..MaxEventTypes : EventTypeHandler_delete(id)

(***************************************************************************)
(* The workflow outside these handlers: events are reported against hosts, *)
(* labors are opened in quests, fates are attached to event types.         *)
(***************************************************************************)
\* the time a row is stamped with: rows are stamped as they are inserted
Clock(n) == 10 * n

ReportEvent ==
    \E h \in hosts, et \in eventTypes :
        /\ Cardinality(events) < MaxEvents
        /\ events' = events \cup {[id |-> Cardinality(events) + 1, hostId |-> h.id,
                                   eventTypeId |-> et.id,
                                   timestamp |-> Clock(Cardinality(events) + 1)]}
        /\ resp' = NoExchange
        /\ UNCHANGED <<hosts, nextHostId, eventTypes, nextEventTypeId, labors, fates, conc>>

OpenLabor ==
    \E h \in hosts, q \in QuestIds :
        /\ Cardinality(labors) < MaxLabors
        /\ labors' = labors \cup {[id |-> Cardinality(labors) + 1, hostId |-> h.id,
                                   questId |-> q,
                                   creationTime |-> Clock(Cardinality(labors) + 1)]}
        /\ resp' = NoExchange
        /\ UNCHANGED <<hosts, nextHostId, eventTypes, nextEventTypeId, events, fates, conc>>

AttachFate ==
    \E et \in eventTypes :
        /\ Cardinality(fates) < MaxFates
        /\ fates' = fates \cup {[id |-> Cardinality(fates) + 1, eventTypeId |-> et.id]}
        /\ resp' = NoExchange
        /\ UNCHANGED <<hosts, nextHostId, eventTypes, nextEventTypeId, events, labors, conc>>

(***************************************************************************)
(* The host side, on a store that holds one event type and nothing else:   *)
(* SpecHost is the life of the hosts (create, rename, delete) under the    *)
(* workflow, SpecHostView the reading of hosts as they are created and     *)
(* worked on.                                                              *)
(***************************************************************************)
ConcIdle ==
    /\ pc = <<>>
    /\ pending = <<>>
    /\ reply = <<>>
    /\ reads = <<>>

InitHost ==
    /\ hosts = {}
    /\ nextHostId = 1
    /\ eventTypes = {[id |-> 1, category |-> "system-reboot", state |-> "required",
                      description |-> "d1"]}
    /\ nextEventTypeId = 2
    /\ events = {}
    /\ labors = {}
    /\ fates = {}
    /\ resp = NoExchange
    /\ ConcIdle

NextHost ==
    \/ CreateHost
    \/ UpdateHost
    \/ DeleteHost
    \/ ReportEvent
    \/ OpenLabor

SpecHost == InitHost /\ [][NextHost]_vars

NextHostView ==
    \/ CreateHost
    \/ GetHost
    \/ ReportEvent
    \/ OpenLabor

SpecHostView == InitHost /\ [][NextHostView]_vars

\* the creation and the deletion of hosts while the workflow refers to them
NextHostDelete ==
    \/ CreateHost
    \/ DeleteHost
    \/ ReportEvent
    \/ OpenLabor

SpecHostDelete == InitHost /\ [][NextHostDelete]_vars

(***************************************************************************)
(* The event type side, on a store that holds one host and nothing else:   *)
(* the life of the event types (create, update, delete) under the          *)
(* workflow.                                                               *)
(***************************************************************************)
InitEventType ==
    /\ hosts = {[id |-> 1, hostname |-> "h1"]}
    /\ nextHostId = 2
    /\ eventTypes = {}
    /\ nextEventTypeId = 1
    /\ events = {}
    /\ labors = {}
    /\ fates = {}
    /\ resp = NoExchange
    /\ ConcIdle

NextEventType ==
    \/ CreateEventType
    \/ UpdateEventType
    \/ DeleteEventType
    \/ ReportEvent
    \/ AttachFate

SpecEventType == InitEventType /\ [][NextEventType]_vars

(***************************************************************************)
(* The reading of one host and one event type while the workflow goes on.  *)
(***************************************************************************)
InitView ==
    /\ hosts = {[id |-> 1, hostname |-> "h1"]}
    /\ nextHostId = 2
    /\ eventTypes = {[id |-> 1, category |-> "system-reboot", state |-> "required",
                      description |-> "d1"]}
    /\ nextEventTypeId = 2
    /\ events = {}
    /\ labors = {}
    /\ fates = {}
    /\ resp = NoExchange
    /\ ConcIdle

NextView ==
    \/ GetHost
    \/ GetEventType
    \/ ReportEvent
    \/ OpenLabor
    \/ AttachFate

SpecView == InitView /\ [][NextView]_vars

(***************************************************************************)
(* The updates of hosts and of event types, on a store that starts with    *)
(* one host and one event type and where hosts and event types come and    *)
(* go.                                                                     *)
(***************************************************************************)
NextUpdate ==
    \/ CreateHost
    \/ UpdateHost
    \/ DeleteHost
    \/ CreateEventType
    \/ UpdateEventType

SpecUpdate == InitView /\ [][NextUpdate]_vars

(***************************************************************************)
(* The list handlers.                                                      *)
(***************************************************************************)
\* ApiHandler.paginate_query(query, offset, limit): the window and the total
paginate_query(rows, offset, limit) ==
    [rows |-> limit_offset(rows, limit, offset), total |-> Len(rows)]

\* Query.all() of a query without ORDER BY: the rows in an order the database
\* chooses, any of the orders of the rows
all(rows) == {q \in [1..Cardinality(rows) -> rows] : Range(q) = rows}

\* HostsHandler.get; hostname = "" is a request without the hostname argument.
\* The query has no ORDER BY: the responses the handler can give, one for each
\* order the database can return the rows in
HostsHandler_get(hostname, offset, limit, expand) ==
    LET rows == IF hostname = "" THEN hosts ELSE HostByName(hostname)
        p == get_pagination_values(offset, limit, expand)
    IN  IF ~p.ok THEN {[kind |-> "BadRequest", body |-> Message("Invalid Argument")]}
        ELSE {LET w == paginate_query(q, p.offset, p.limit)
              IN  [kind |-> "success",
                   body |-> [limit |-> p.limit, offset |-> p.offset,
                             totalHosts |-> w.total,
                             hosts |-> Map(w.rows, Host_to_dict)]]
              : q \in all(rows)}

\* EventTypesHandler.get; "" is a request without that argument.  The query has
\* no ORDER BY: the responses the handler can give, one for each order the
\* database can return the rows in
EventTypesHandler_get(category, state, offset, limit, expand) ==
    LET rows == {et \in eventTypes : /\ category = "" \/ et.category = category
                                     /\ state = "" \/ et.state = state}
        p == get_pagination_values(offset, limit, expand)
    IN  IF ~p.ok THEN {[kind |-> "BadRequest", body |-> Message("Invalid Argument")]}
        ELSE {LET w == paginate_query(q, p.offset, p.limit)
              IN  [kind |-> "success",
                   body |-> [limit |-> p.limit, offset |-> p.offset,
                             totalEventTypes |-> w.total,
                             eventTypes |-> Map(w.rows, EventType_to_dict)]]
              : q \in all(rows)}

(***************************************************************************)
(* Concurrent requests.  Each client has a session of its own; a create    *)
(* request goes through the model's create (the insert, flushed in the     *)
(* session's transaction), session.commit() and self.created(); reads run  *)
(* between these steps.  An insert of a key that another open transaction  *)
(* has inserted waits for that transaction to end.                         *)
(***************************************************************************)
Clients == {1, 2}
NoRow == [table |-> "none", row |-> <<>>]
NoReply == [kind |-> "none", body |-> <<>>]
ConcHostBodies == {Json({<<"hostname", "h1">>}), Json({<<"hostname", "h2">>}), Json({})}
ConcEventTypeBodies ==
    {EventTypeBody("system-reboot", "required", "d1"),
     EventTypeBody("system-reboot", "required", "d2"),
     EventTypeBody("system-reboot", "completed", "d2"),
     Json({<<"category", "system-reboot">>, <<"state", "completed">>})}

Finish(c, kind, body) ==
    /\ pc' = [pc EXCEPT ![c] = "done"]
    /\ reply' = [reply EXCEPT ![c] = [kind |-> kind, body |-> body]]
    /\ UNCHANGED <<store, resp, pending, reads>>

\* HostsHandler.post, lines 47-61: the body is read and Host.create inserts
HostsPost_create(c, body) ==
    /\ pc[c] = "idle"
    /\ IF ~body.valid THEN Finish(c, "BadRequest", Message("ValueError"))
       ELSE IF ~HasKey(body.obj, "hostname")
       THEN Finish(c, "BadRequest", Message("Missing Required Argument: hostname"))
       ELSE LET hostname == Get(body.obj, "hostname")
                r == Host_create(hostname)
            IN  /\ \A d \in Clients :
                       ~(/\ pc[d] = "flushed"
                         /\ pending[d].table = "host"
                         /\ pending[d].row.hostname = hostname)
                /\ IF r.exc = "IntegrityError"
                   THEN Finish(c, "Conflict", Message("IntegrityError"))
                   ELSE IF r.exc = "ValidationError"
                   THEN Finish(c, "BadRequest", Message("ValidationError"))
                   ELSE /\ nextHostId <= MaxHosts
                        /\ nextHostId' = nextHostId + 1
                        /\ pending' = [pending EXCEPT ![c] = [table |-> "host", row |-> r.row]]
                        /\ pc' = [pc EXCEPT ![c] = "flushed"]
                        /\ UNCHANGED <<hosts, eventTypes, nextEventTypeId, events, labors,
                                       fates, resp, reply, reads>>

\* HostsHandler.post, line 63: self.session.commit()
HostsPost_commit(c) ==
    /\ pc[c] = "flushed"
    /\ pending[c].table = "host"
    /\ hosts' = hosts \cup {pending[c].row}
    /\ pc' = [pc EXCEPT ![c] = "committed"]
    /\ UNCHANGED <<nextHostId, eventTypes, nextEventTypeId, events, labors, fates, resp,
                   pending, reply, reads>>

\* HostsHandler.post, lines 65-68: the 201 response
HostsPost_created(c) ==
    /\ pc[c] = "committed"
    /\ pending[c].table = "host"
    /\ LET row == pending[c].row
       IN  Finish(c, "created",
                  [id |-> row.id, hostname |-> row.hostname,
                   href |-> Host_href(row.hostname), location |-> Host_href(row.hostname)])

\* EventTypesHandler.post, lines 320-336: the body is read and EventType.create inserts
EventTypesPost_create(c, body) ==
    /\ pc[c] = "idle"
    /\ IF ~body.valid THEN Finish(c, "BadRequest", Message("ValueError"))
       ELSE IF FirstMissing(body.obj) # "none"
       THEN Finish(c, "BadRequest",
                   Message("Missing Required Argument: " \o FirstMissing(body.obj)))
       ELSE LET category == Get(body.obj, "category")
                state == Get(body.obj, "state")
                r == EventType_create(category, state, Get(body.obj, "description"))
            IN  /\ \A d \in Clients :
                       ~(/\ pc[d] = "flushed"
                         /\ pending[d].table = "eventType"
                         /\ pending[d].row.category = category
                         /\ pending[d].row.state = state)
                /\ IF r.exc = "IntegrityError"
                   THEN Finish(c, "Conflict", Message("IntegrityError"))
                   ELSE /\ nextEventTypeId <= MaxEventTypes
                        /\ nextEventTypeId' = nextEventTypeId + 1
                        /\ pending' = [pending EXCEPT
                                          ![c] = [table |-> "eventType", row |-> r.row]]
                        /\ pc' = [pc EXCEPT ![c] = "flushed"]
                        /\ UNCHANGED <<hosts, nextHostId, eventTypes, events, labors, fates,
                                       resp, reply, reads>>

\* EventTypesHandler.post, line 338: self.session.commit()
EventTypesPost_commit(c) ==
    /\ pc[c] = "flushed"
    /\ pending[c].table = "eventType"
    /\ eventTypes' = eventTypes \cup {pending[c].row}
    /\ pc' = [pc EXCEPT ![c] = "committed"]
    /\ UNCHANGED <<hosts, nextHostId, nextEventTypeId, events, labors, fates, resp,
                   pending, reply, reads>>

\* EventTypesHandler.post, lines 340-343: the 201 response
EventTypesPost_created(c) ==
    /\ pc[c] = "committed"
    /\ pending[c].table = "eventType"
    /\ LET row == pending[c].row
       IN  Finish(c, "created",
                  [id |-> row.id, category |-> row.category, state |-> row.state,
                   description |-> row.description, href |-> EventType_href(row.id),
                   location |-> EventType_href(row.id)])

\* the rows whose 201 response has been emitted
Acknowledged == {pending[c] : c \in {d \in Clients : pc[d] = "done" /\ reply[d].kind = "created"}}

Read(op, req, r) ==
    /\ reads' = [op |-> op, req |-> req, kind |-> r.kind, body |-> r.body,
                 after |-> Acknowledged]
    /\ UNCHANGED <<store, resp, pc, pending, reply>>

ReadHost ==
    \E hostname \in Hostnames :
        Read("HostHandler.get", [hostname |-> hostname],
             HostHandler_get(hostname, 0, 1, {}))

ReadHosts ==
    \E hostname \in Hostnames \cup {""} :
        \E r \in HostsHandler_get(hostname, 0, MaxHosts + 1, {}) :
            Read("HostsHandler.get", [hostname |-> hostname], r)

ReadEventType ==
    \E id \in 1..MaxEventTypes :
        Read("EventTypeHandler.get", [id |-> id], EventTypeHandler_get(id, 0, 1, {}))

ReadEventTypes ==
    \E state \in States \cup {""} :
        \E r \in EventTypesHandler_get("", state, 0, MaxEventTypes + 1, {}) :
            Read("EventTypesHandler.get", [state |-> state], r)

InitConc ==
    /\ hosts = {[id |-> 1, hostname |-> "h1"]}
    /\ nextHostId = 2
    /\ eventTypes = {}
    /\ nextEventTypeId = 1
    /\ events = {}
    /\ labors = {}
    /\ fates = {}
    /\ resp = NoExchange
    /\ pc = [c \in Clients |-> "idle"]
    /\ pending = [c \in Clients |-> NoRow]
    /\ reply = [c \in Clients |-> NoReply]
    /\ reads = [op |-> "none", req |-> <<>>, kind |-> "none", body |-> <<>>, after |-> {}]

NextConc ==
    \/ \E c \in Clients, body \in ConcHostBodies : HostsPost_create(c, body)
    \/ \E c \in Clients : HostsPost_commit(c)
    \/ \E c \in Clients : HostsPost_created(c)
    \/ \E c \in Clients, body \in ConcEventTypeBodies : EventTypesPost_create(c, body)
    \/ \E c \in Clients : EventTypesPost_commit(c)
    \/ \E c \in Clients : EventTypesPost_created(c)
    \/ ReadHost
    \/ ReadHosts
    \/ ReadEventType
    \/ ReadEventTypes
    \/ ReportEvent

SpecConc == InitConc /\ [][NextConc]_vars

(***************************************************************************)
(* The claims.                                                             *)
(***************************************************************************)
IsHostGet == resp.op = "HostHandler.get"
ValidPage(req) == req.offset >= 0 /\ req.limit > 0
HostNamed(hostname) == CHOOSE h \in HostByName(hostname) : TRUE
EventsOf(host) == {e \in events : e.hostId = host.id}
LaborsOf(host) == {l \in labors : l.hostId = host.id}
Latest(rows) == CHOOSE e \in rows : \A x \in rows : x.timestamp <= e.timestamp
EntryIds(entries) == {entries[i].id : i \in 1..Len(entries)}

\* C1: GET of a host that has events, with a valid (offset, limit), succeeds and
\* its lastEvent is the text of the greatest timestamp among the host's events,
\* whatever the offset and the limit, also when the events window leaves that
\* event out.
C1_LastEventIsLatest ==
    (/\ IsHostGet
     /\ ValidPage(resp.req)
     /\ HostByName(resp.req.hostname) # {}
     /\ EventsOf(HostNamed(resp.req.hostname)) # {})
    => /\ resp.kind = "success"
       /\ resp.body.lastEvent =
              ToString(Latest(EventsOf(HostNamed(resp.req.hostname))).timestamp)

\* C1 witness: a successful GET of a host with two events whose events window
\* does not hold the latest event
C1_Witness ==
    /\ IsHostGet
    /\ resp.kind = "success"
    /\ Cardinality(EventsOf(HostNamed(resp.req.hostname))) >= 2
    /\ resp.body.events # <<>>
    /\ Latest(EventsOf(HostNamed(resp.req.hostname))).id \notin EntryIds(resp.body.events)

\* C2: once a host has been created, a GET of its hostname with a valid (offset,
\* limit) succeeds and returns that hostname and the id the host was given, also
\* when the host has no labors and no events.
C2_CreatedHostCanBeFetched ==
    (/\ IsHostGet
     /\ ValidPage(resp.req)
     /\ HostByName(resp.req.hostname) # {})
    => /\ resp.kind = "success"
       /\ resp.body.hostname = resp.req.hostname
       /\ resp.body.id = HostNamed(resp.req.hostname).id

\* no two hosts share a hostname or an id
HostnamesUnique ==
    \A a \in hosts, b \in hosts : (a.hostname = b.hostname \/ a.id = b.id) => a = b

CreateOfExisting ==
    /\ resp'.op = "HostsHandler.post"
    /\ resp'.req.valid
    /\ HasKey(resp'.req.obj, "hostname")
    /\ HostByName(Get(resp'.req.obj, "hostname")) # {}

RenameToTaken ==
    /\ resp'.op = "HostHandler.put"
    /\ HostByName(resp'.req.hostname) # {}
    /\ resp'.req.body.valid
    /\ HasKey(resp'.req.body.obj, "hostname")
    /\ \E other \in hosts : /\ other.hostname = Get(resp'.req.body.obj, "hostname")
                            /\ other.hostname # resp'.req.hostname

\* C3: hostnames (and ids) of the store are unique in every state; a create with a
\* hostname that exists, and a rename to a hostname another host holds, answer
\* Conflict and leave the hosts as they were.
C3_HostnamesStayUnique ==
    /\ []HostnamesUnique
    /\ [][((CreateOfExisting \/ RenameToTaken) => (resp'.kind = "Conflict" /\ hosts' = hosts))
          /\ (resp'.kind = "Conflict" => hosts' = hosts)]_vars

\* C4: a DELETE of an event type, whether the id exists or not, is answered by the
\* success responder with the message "Not supported." and leaves the event types
\* as they were.
C4_DeleteIsSuccess ==
    resp.op = "EventTypeHandler.delete"
    => /\ resp.kind = "success"
       /\ resp.body.message = "Not supported."

\* the step is a PUT, with a JSON body, on an event type that exists
IsEventTypePut ==
    /\ resp'.op = "EventTypeHandler.put"
    /\ EventTypeById(resp'.req.id) # {}
    /\ resp'.req.body.valid

PutWithDescription ==
    IsEventTypePut /\ HasKey(resp'.req.body.obj, "description")
    => LET et == CHOOSE x \in EventTypeById(resp'.req.id) : TRUE
       IN  /\ resp'.kind = "success"
           /\ eventTypes' = (eventTypes \ {et}) \cup
                  {[id |-> et.id, category |-> et.category, state |-> et.state,
                    description |-> Get(resp'.req.body.obj, "description")]}
           /\ resp'.body.eventType.category = et.category
           /\ resp'.body.eventType.state = et.state
           /\ UNCHANGED <<hosts, events, labors, fates, nextEventTypeId>>

PutWithoutDescription ==
    IsEventTypePut /\ ~HasKey(resp'.req.body.obj, "description")
    => /\ resp'.kind = "BadRequest"
       /\ resp'.body.message = "Missing Required Argument: description"
       /\ UNCHANGED store

CategoryAndStateKept ==
    \A et \in eventTypes :
        \E after \in eventTypes' :
            after.id = et.id /\ after.category = et.category /\ after.state = et.state

\* C5: a PUT on an existing event type whose body has a description sets that
\* description and changes nothing else of the store; a PUT on an existing event
\* type whose body has no description answers Missing Required Argument and
\* changes nothing; no step changes the category or the state an event type has.
C5_OnlyDescriptionChanges ==
    [][PutWithDescription /\ PutWithoutDescription /\ CategoryAndStateKept]_vars

\* C5 witness: a successful PUT whose body carried a state other than the event
\* type's
C5_Witness ==
    /\ resp.op = "EventTypeHandler.put"
    /\ resp.kind = "success"
    /\ HasKey(resp.req.body.obj, "state")
    /\ Get(resp.req.body.obj, "state") # resp.body.eventType.state
    /\ Cardinality(eventTypes) = 2

LaborById(id) == CHOOSE l \in labors : l.id = id

\* C6: in a successful GET of a host, labors and quests have the same length and
\* quests[i] is the quest of the labor labors[i], repeated when labors share it.
C6_QuestsPairLabors ==
    (IsHostGet /\ resp.kind = "success")
    => /\ Len(resp.body.labors) = Len(resp.body.quests)
       /\ \A i \in 1..Len(resp.body.labors) :
              resp.body.quests[i].id = LaborById(resp.body.labors[i].id).questId

\* C6 witness: a GET that returned two labors of one quest
C6_Witness ==
    /\ IsHostGet
    /\ resp.kind = "success"
    /\ Len(resp.body.labors) = 2
    /\ Len(resp.body.quests) = 2
    /\ resp.body.quests[1].id = resp.body.quests[2].id

\* an entry is in the form the expand set of the request asks for
IsEventTypeGet == resp.op = "EventTypeHandler.get"
IsReference(entry, href) == DOMAIN entry = {"id", "href"} /\ entry.href = href
InForm(relation, entry, full, href) ==
    IF relation \in resp.req.expand THEN entry = full ELSE IsReference(entry, href)
EventById(id) == CHOOSE e \in events : e.id = id
FateById(id) == CHOOSE f \in fates : f.id = id
Each(entries, P(_)) == \A i \in 1..Len(entries) : P(entries[i])

HostEntriesInForm ==
    (IsHostGet /\ resp.kind = "success")
    => /\ Each(resp.body.labors,
               LAMBDA x : InForm("labors", x, Labor_to_dict(LaborById(x.id)),
                                 Labor_href(LaborById(x.id))))
       /\ \A i \in 1..Len(resp.body.quests) :
              LET quest == Labor_quest(LaborById(resp.body.labors[i].id))
              IN  InForm("quests", resp.body.quests[i], Quest_to_dict(quest),
                         Quest_href(quest))
       /\ Each(resp.body.events,
               LAMBDA x : InForm("events", x, Event_to_dict(EventById(x.id)),
                                 Event_href(EventById(x.id))))
       /\ resp.body = HostHandler_get(resp.req.hostname, resp.req.offset, resp.req.limit,
                                      resp.req.expand \cap Relations).body

EventTypeEntriesInForm ==
    (IsEventTypeGet /\ resp.kind = "success")
    => /\ Each(resp.body.events,
               LAMBDA x : InForm("events", x, Event_to_dict(EventById(x.id)),
                                 Event_href(EventById(x.id))))
       /\ Each(resp.body.fate,
               LAMBDA x : InForm("fates", x, Fate_to_dict(FateById(x.id)),
                                 Fate_href(FateById(x.id))))
       /\ resp.body = EventTypeHandler_get(resp.req.id, resp.req.offset, resp.req.limit,
                                           resp.req.expand \cap Relations).body

\* C7: every labor, quest and event entry of a host document and every event and
\* fate entry of an event type document is the entity's full representation when
\* the relation's name is in the expand set, and otherwise the reference of exactly
\* id and href; names of the expand set that are no relation change nothing.
C7_EntriesInOneForm == HostEntriesInForm /\ EventTypeEntriesInForm

\* C7 witness: a host document whose labors and events are expanded and whose
\* quests are references, asked for with a name that is no relation
C7_Witness ==
    /\ IsHostGet
    /\ resp.kind = "success"
    /\ resp.req.expand = {"labors", "events", "bogus"}
    /\ Len(resp.body.labors) >= 1
    /\ Len(resp.body.events) >= 1
    /\ DOMAIN resp.body.quests[1] = {"id", "href"}
    /\ DOMAIN resp.body.labors[1] # {"id", "href"}

\* C8: right after an event type is created from category, state and description,
\* a GET of the id it was given returns these three values and an empty events
\* and an empty fate array.
C8_CreatedEventTypeIsReturned ==
    (resp.op = "EventTypesHandler.post" /\ resp.kind = "created")
    => LET got == EventTypeHandler_get(resp.body.id, 0, 1, {})
       IN  /\ got.kind = "success"
           /\ got.body.id = resp.body.id
           /\ got.body.category = Get(resp.req.obj, "category")
           /\ got.body.state = Get(resp.req.obj, "state")
           /\ got.body.description = Get(resp.req.obj, "description")
           /\ got.body.events = <<>>
           /\ got.body.fate = <<>>

\* C8 witness: a second event type was just created while the first has events and
\* fates
C8_Witness ==
    /\ resp.op = "EventTypesHandler.post"
    /\ resp.kind = "created"
    /\ resp.body.id = 2
    /\ resp.body.description = "d2"
    /\ events # {}
    /\ fates # {}

\* the number of rows that (offset, limit) of the request leaves of n rows
Max(a, b) == IF a > b THEN a ELSE b
WindowSize(n) == Min(resp.req.limit, Max(0, n - resp.req.offset))

HostWindowsShareThePair ==
    (IsHostGet /\ resp.kind = "success")
    => LET host == HostNamed(resp.req.hostname)
       IN  /\ resp.body.offset = resp.req.offset
           /\ resp.body.limit = resp.req.limit
           /\ Len(resp.body.labors) = WindowSize(Cardinality(LaborsOf(host)))
           /\ Len(resp.body.quests) = WindowSize(Cardinality(LaborsOf(host)))
           /\ Len(resp.body.events) = WindowSize(Cardinality(EventsOf(host)))
           /\ EntryIds(resp.body.labors) \subseteq {l.id : l \in LaborsOf(host)}
           /\ EntryIds(resp.body.events) \subseteq {e.id : e \in EventsOf(host)}

EventTypeWindowAndAllFates ==
    (IsEventTypeGet /\ resp.kind = "success")
    => LET mine == {e \in events : e.eventTypeId = resp.req.id}
       IN  /\ resp.body.offset = resp.req.offset
           /\ resp.body.limit = resp.req.limit
           /\ Len(resp.body.events) = WindowSize(Cardinality(mine))
           /\ EntryIds(resp.body.events) \subseteq {e.id : e \in mine}
           /\ Len(resp.body.fate) = Cardinality({f \in fates : f.eventTypeId = resp.req.id})
           /\ EntryIds(resp.body.fate) = {f.id : f \in {x \in fates : x.eventTypeId = resp.req.id}}

\* C9: a host document carries the request's (offset, limit), and its labors, its
\* quests and its events are each the part of the host's rows that this one pair
\* leaves: min(limit, rows past offset) entries, never more than limit; an event
\* type document windows its events by the pair in the same way and holds every
\* fate of the event type.
C9_OnePairPerResponse == HostWindowsShareThePair /\ EventTypeWindowAndAllFates

\* C9 witness: an event type document asked for with limit 1 that holds one of two
\* events and both fates
C9_Witness ==
    /\ IsEventTypeGet
    /\ resp.kind = "success"
    /\ resp.req.limit = 1
    /\ Len(resp.body.events) = 1
    /\ Cardinality({e \in events : e.eventTypeId = resp.req.id}) = 2
    /\ Len(resp.body.fate) = 2

\* what a read shows of a row whose 201 response preceded it
Observes(read, ack) ==
    IF ack.table = "host"
    THEN /\ (read.op = "HostHandler.get" /\ read.req.hostname = ack.row.hostname)
            => /\ read.kind = "success"
               /\ read.body.id = ack.row.id
               /\ read.body.hostname = ack.row.hostname
         /\ (read.op = "HostsHandler.get" /\ read.req.hostname \in {"", ack.row.hostname})
            => /\ read.kind = "success"
               /\ Host_to_dict(ack.row) \in Range(read.body.hosts)
    ELSE /\ (read.op = "EventTypeHandler.get" /\ read.req.id = ack.row.id)
            => /\ read.kind = "success"
               /\ read.body.category = ack.row.category
               /\ read.body.state = ack.row.state
               /\ read.body.description = ack.row.description
         /\ (read.op = "EventTypesHandler.get" /\ read.req.state \in {"", ack.row.state})
            => /\ read.kind = "success"
               /\ EventType_to_dict(ack.row) \in Range(read.body.eventTypes)

Committed(table) ==
    {pending[c].row : c \in {d \in Clients : /\ pc[d] \in {"committed", "done"}
                                             /\ pending[d].table = table}}

\* C10: a read that starts after the 201 response of a create finds the created
\* row: a GET of the host returns it and the list of hosts holds it, a GET of
\* the event type returns it and the list of event types holds it; the
\* rows of the store are the initial ones and those of the creates that committed,
\* and a create that ended in BadRequest or Conflict has inserted no row.
C10_ReadYourWrites ==
    /\ \A ack \in reads.after : Observes(reads, ack)
    /\ hosts = {[id |-> 1, hostname |-> "h1"]} \cup Committed("host")
    /\ eventTypes = Committed("eventType")
    /\ \A c \in Clients :
           (pc[c] = "done" /\ reply[c].kind \in {"BadRequest", "Conflict"})
           => pending[c] = NoRow

\* the step is a DELETE of a host
IsHostDelete == resp'.op = "HostHandler.delete"

\* the events and labors that refer to the host named
Referencing(hostname) ==
    [events |-> {e \in events : \E h \in HostByName(hostname) : e.hostId = h.id},
     labors |-> {l \in labors : \E h \in HostByName(hostname) : l.hostId = h.id}]

HostIsReferenced(hostname) ==
    Referencing(hostname).events # {} \/ Referencing(hostname).labors # {}

\* C11: a DELETE of a hostname that does not exist answers NotFound and changes
\* nothing; a DELETE of a host that events or labors refer to answers Conflict
\* and the host and those records stay; only in the case left is the host
\* removed, it alone, and a success message returned.
C11_DeleteHostOutcomes ==
    [][IsHostDelete =>
         LET hostname == resp'.req.hostname IN
         IF HostByName(hostname) = {}
         THEN resp'.kind = "NotFound" /\ UNCHANGED store
         ELSE IF HostIsReferenced(hostname)
         THEN /\ resp'.kind = "Conflict"
              /\ HostByName(hostname) \subseteq hosts'
              /\ Referencing(hostname).events \subseteq events'
              /\ Referencing(hostname).labors \subseteq labors'
              /\ UNCHANGED store
         ELSE /\ resp'.kind = "success"
              /\ resp'.body = Message("Host deleted.")
              /\ hosts' = hosts \ HostByName(hostname)
              /\ UNCHANGED <<nextHostId, eventTypes, nextEventTypeId, events, labors,
                             fates>>]_vars

\* C11 witness: the DELETE of a host that an event and a labor refer to was
\* refused with Conflict, host and records still there, beside another host
C11_Witness ==
    /\ resp.op = "HostHandler.delete"
    /\ resp.kind = "Conflict"
    /\ HostByName(resp.req.hostname) # {}
    /\ Referencing(resp.req.hostname).events # {}
    /\ Referencing(resp.req.hostname).labors # {}
    /\ Cardinality(hosts) = 2

\* the ids of the entries of a list of a document, in the order of the list
IdsInOrder(entries) == [i \in 1..Len(entries) |-> entries[i].id]

\* the ids at positions offset .. offset+limit-1 of the rows sorted ascending
AscendingSlice(rows, field, offset, limit) ==
    LET sorted == order_by(rows, field)
    IN  IdsInOrder(SubSeq(sorted, offset + 1, Min(Len(sorted), offset + limit)))

HostLaborsAreAscendingSlice ==
    (IsHostGet /\ resp.kind = "success")
    => IdsInOrder(resp.body.labors)
           = AscendingSlice(LaborsOf(HostNamed(resp.req.hostname)), "creationTime",
                            resp.req.offset, resp.req.limit)

HostEventsAreAscendingSlice ==
    (IsHostGet /\ resp.kind = "success")
    => IdsInOrder(resp.body.events)
           = AscendingSlice(EventsOf(HostNamed(resp.req.hostname)), "timestamp",
                            resp.req.offset, resp.req.limit)

EventTypeEventsAreAscendingSlice ==
    (IsEventTypeGet /\ resp.kind = "success")
    => IdsInOrder(resp.body.events)
           = AscendingSlice({e \in events : e.eventTypeId = resp.req.id}, "timestamp",
                            resp.req.offset, resp.req.limit)

\* C12: in every document a GET with a valid (offset, limit) returns, the labors
\* of a host are the entries offset .. offset+limit-1 of its labors sorted
\* ascending by creation time, and the events of a host and of an event type
\* the entries offset .. offset+limit-1 of its events sorted ascending by
\* timestamp, each list in that ascending order.
C12_WindowsAreAscendingSlices ==
    /\ HostLaborsAreAscendingSlice
    /\ HostEventsAreAscendingSlice
    /\ EventTypeEventsAreAscendingSlice

\* the step is a PUT of a host or of an event type, and the entity it names exists
IsHostPut == resp'.op = "HostHandler.put"
HostPutFinds == HostByName(resp'.req.hostname) # {}
EventTypePutFinds == EventTypeById(resp'.req.id) # {}
\* the answer is the missing-argument error of the field the update needs
MissingArgument(field) ==
    /\ resp'.kind = "BadRequest"
    /\ resp'.body = Message("Missing Required Argument: " \o field)

\* C13: an update looks its entity up before it reads the body: a PUT of a host
\* or of an event type that does not exist answers NotFound whatever the body,
\* also when the body lacks hostname or description; the missing-argument error
\* is answered only when the entity exists; and a PUT answered NotFound or with
\* the missing-argument error changes no entity.
C13_LookupBeforeBody ==
    [][/\ IsHostPut =>
            /\ ~HostPutFinds => resp'.kind = "NotFound"
            /\ MissingArgument("hostname") =>
                   /\ HostPutFinds
                   /\ resp'.req.body.valid
                   /\ ~HasKey(resp'.req.body.obj, "hostname")
            /\ (resp'.kind = "NotFound" \/ MissingArgument("hostname"))
                   => UNCHANGED store
       /\ resp'.op = "EventTypeHandler.put" =>
            /\ ~EventTypePutFinds => resp'.kind = "NotFound"
            /\ MissingArgument("description") =>
                   /\ EventTypePutFinds
                   /\ resp'.req.body.valid
                   /\ ~HasKey(resp'.req.body.obj, "description")
            /\ (resp'.kind = "NotFound" \/ MissingArgument("description"))
                   => UNCHANGED store]_vars

\* C13 witness: a PUT of a host that does not exist, with a body that has no
\* hostname, was answered NotFound, while a host and an event type exist
C13_Witness ==
    /\ resp.op = "HostHandler.put"
    /\ resp.kind = "NotFound"
    /\ resp.req.body.valid
    /\ ~HasKey(resp.req.body.obj, "hostname")
    /\ HostByName(resp.req.hostname) = {}
    /\ hosts # {}
    /\ eventTypes # {}

====
